---- MODULE Spec2Model ----
(***************************************************************************)
(* Gmail auto-responder: the reply route (POST /api/gmail/reply), the list *)
(* route (GET /api/gmail/list) and the InboxAssistant page that drives     *)
(* them.  Strings are kept as strings; JavaScript null/undefined is Null.  *)
(*                                                                         *)
(* ServerSpec: the two routes called by one HTTP caller at a time, over    *)
(*   every payload and every unread list within the bounds; each await of  *)
(*   a route is a step of its own.                                         *)
(* Spec: the page of a signed-in user (load effect, refresh, draft edits,  *)
(*   "Send reply", "Answer all with drafts") driving the same route steps; *)
(*   every handler runs from one await to the next as one step.            *)
(* FairSpec: Spec, with the request a run awaits served and answered.      *)
(* SessionSpec: Spec, where the session may also stop being authenticated  *)
(*   and come back while requests are in flight.                           *)
(* LongSpec: Spec followed for one user action more.                       *)
(* DraftSpec: Spec with the template and smart-draft buttons as well.      *)
(* PureSpec: the subject normalization, smartReply and parseEmailAddress,  *)
(*   each applied to every input within the bounds; the strings they take  *)
(*   apart are sequences of characters.                                    *)
(* The success banner is not modelled: no handler reads it.                *)
(***************************************************************************)
EXTENDS Integers, Sequences, FiniteSets, Bags, TLC

\* ------------------------------------------------------------------ bounds
MaxMsgs == 2      \* message ids the mailbox holds
MaxList == 3      \* entries the unread query returns to a direct caller (ServerSpec)
MaxActions == 2   \* user actions (edits, clicks) in one behaviour of the page

\* ------------------------------------------------------------- vocabulary
Null == "null"
Empty == ""
Msgs == {"m" \o ToString(i) : i \in 1..MaxMsgs}
Falsy(v) == v \in {Null, Empty}

Range(s) == {s[i] : i \in 1..Len(s)}
NoDupIds(s) == \A i, j \in 1..Len(s) : (i # j /\ s[i] # Null) => s[i] # s[j]
SeqsUpTo(S, n) == UNION {[1..k -> S] : k \in 0..n}
Without(s, m) == SelectSeq(s, LAMBDA x : x # m)

VARIABLES
  accessToken,     \* server session: session?.accessToken is set
  unread,          \* provider: entries of INBOX is:unread, in provider order
  posts,           \* bag of send-reply requests in flight (client -> route -> client)
  gets,            \* bag of list requests in flight
  messages,        \* page state: useState<GmailMessage[]>
  replyDrafts,     \* page state: Record<string, string>; Null = no entry
  sendingId,       \* page state
  loadingMessages, \* page state
  error,           \* page state
  mounted,         \* the load effect has run for the current session
  runs,            \* handleAutoAnswerAll invocations, each a closure over one render
  actions,         \* user actions made so far
  budget,          \* user actions one behaviour may make
  authed,          \* page: status === 'authenticated' (useSession)
  calc             \* a pure function under evaluation: its input and its results

serverVars == <<accessToken, unread>>
otherVars == <<budget, authed, calc>>
pageVars == <<messages, replyDrafts, sendingId, loadingMessages, error, mounted, runs, actions,
              otherVars>>
vars == <<accessToken, unread, posts, gets, messages, replyDrafts, sendingId,
          loadingMessages, error, mounted, runs, actions, budget, authed, calc>>

\* =================================================================== reply route
\* ReplyPayload as the route reads it; messageHeaderId only adds two headers.
FieldValues == {"x", Empty, Null}
BodyValues == FieldValues \cup {" "}   \* a body may also be all whitespace
Payload(messageId, threadId, to, subject, body) ==
  [messageId |-> messageId, threadId |-> threadId, to |-> to,
   subject |-> subject, body |-> body]

MissingField(p) ==
  Falsy(p.messageId) \/ Falsy(p.threadId) \/ Falsy(p.to) \/ Falsy(p.subject) \/ Falsy(p.body)

\* A request as the caller issued it; nothing has run in the route yet.
NewPost(origin, run, msg, payload) ==
  [origin |-> origin, run |-> run, msg |-> msg, payload |-> payload, stage |-> "issued",
   token |-> "unchecked", sendState |-> "none", modifyState |-> "none", status |-> 0]

Respond(r, status) == [r EXCEPT !.stage = "done", !.status = status]

\* part_001:46-62: session check, then the required-field check, then the
\* envelope is built and users.messages.send is called.
PostValidateSkipped(r, tok) ==
  IF ~tok THEN Respond([r EXCEPT !.token = "absent"], 401)
  ELSE [r EXCEPT !.token = "present", !.stage = "sending", !.sendState = "pending"]
PostAuthSkipped(r, tok) ==
  LET t == IF tok THEN "present" ELSE "absent" IN
  IF MissingField(r.payload) THEN Respond([r EXCEPT !.token = t], 400)
  ELSE [r EXCEPT !.token = t, !.stage = "sending", !.sendState = "pending"]
RouteStart(r, tok) ==
  IF ~tok THEN Respond([r EXCEPT !.token = "absent"], 401)
  ELSE IF MissingField(r.payload) THEN Respond([r EXCEPT !.token = "present"], 400)
  ELSE [r EXCEPT !.token = "present", !.stage = "sending", !.sendState = "pending"]

\* part_001:74-89: send resolved -> users.messages.modify is called;
\* send rejected -> the catch answers 500 and modify is never reached.
SendDoneModifyAlways(r, ok) ==
  [r EXCEPT !.sendState = IF ok THEN "ok" ELSE "failed",
            !.stage = "modifying", !.modifyState = "pending"]
RouteSendDone(r, ok) ==
  IF ok THEN [r EXCEPT !.sendState = "ok", !.stage = "modifying", !.modifyState = "pending"]
  ELSE Respond([r EXCEPT !.sendState = "failed"], 500)

\* part_001:82-97: modify resolved -> { ok: true }; rejected -> the same catch, 500.
RouteModifyDone(r, ok) ==
  IF ok THEN Respond([r EXCEPT !.modifyState = "ok"], 200)
  ELSE Respond([r EXCEPT !.modifyState = "failed"], 500)

Replace(bag, old, new) == (bag (-) SetToBag({old})) (+) SetToBag({new})

PostStart(r) ==
  /\ BagIn(r, posts) /\ r.stage = "issued"
  /\ posts' = Replace(posts, r, RouteStart(r, accessToken))
  /\ UNCHANGED <<serverVars, gets, pageVars>>

PostSendResult(r) ==
  /\ BagIn(r, posts) /\ r.stage = "sending"
  /\ \E ok \in BOOLEAN : posts' = Replace(posts, r, RouteSendDone(r, ok))
  /\ UNCHANGED <<serverVars, gets, pageVars>>

\* removeLabelIds: ["UNREAD"] takes the message out of the unread query's result.
PostModifyResult(r) ==
  /\ BagIn(r, posts) /\ r.stage = "modifying"
  /\ \E ok \in BOOLEAN :
       /\ posts' = Replace(posts, r, RouteModifyDone(r, ok))
       /\ unread' = IF ok THEN Without(unread, r.payload.messageId) ELSE unread
  /\ UNCHANGED <<accessToken, gets, pageVars>>

\* ==================================================================== list route
Pending == "pending"

\* listed, settled and failed record what the route has done with the provider:
\* the unread query was issued, the lookups that fulfilled (in completion order),
\* a provider call rejected.
NewGet(origin) ==
  [origin |-> origin, stage |-> "issued", token |-> "unchecked", listed |-> FALSE,
   entries |-> <<>>, detailed |-> <<>>, lookups |-> {}, settled |-> <<>>,
   failed |-> FALSE, status |-> 0, messages |-> <<>>, abandoned |-> FALSE]

\* Once the response is built the route reads nothing more: lookups still
\* outstanding settle into a promise nobody awaits.
GetRespond(g, status, msgs) ==
  [g EXCEPT !.stage = "done", !.status = status, !.messages = msgs,
            !.detailed = <<>>, !.lookups = {}]

\* route.ts:37-54
ListStart(g, tok) ==
  IF ~tok THEN GetRespond([g EXCEPT !.token = "absent"], 401, <<>>)
  ELSE [g EXCEPT !.token = "present", !.stage = "listing", !.listed = TRUE]

\* route.ts:62-64: map() runs every callback up to its first await: an entry
\* without id resolves to null at once, every other entry has its lookup issued.
FanOut(entries) == [i \in 1..Len(entries) |-> IF entries[i] = Null THEN Null ELSE Pending]
LookupsOf(entries) == {i \in 1..Len(entries) : entries[i] # Null}

\* route.ts:95-99
Compact(detailed) == SelectSeq(detailed, LAMBDA x : x # Null)

\* Promise.all over the mapped promises (route.ts:62, 93): fulfilled once none is
\* pending, with the results in the promises' order.
Gather(g) ==
  IF g.lookups = {} THEN GetRespond(g, 200, Compact(g.detailed)) ELSE g

\* route.ts:58-60: an empty result is a success, not a failure.
ListDoneEmptyIs500(g, ok, result) ==
  IF ~ok THEN GetRespond([g EXCEPT !.failed = TRUE], 500, <<>>)
  ELSE IF Len(result) = 0 THEN GetRespond([g EXCEPT !.entries = result], 500, <<>>)
  ELSE Gather([g EXCEPT !.entries = result, !.stage = "enriching",
                        !.detailed = FanOut(result), !.lookups = LookupsOf(result)])

\* route.ts:49-60
ListDone(g, ok, result) ==
  IF ~ok THEN GetRespond([g EXCEPT !.failed = TRUE], 500, <<>>)
  ELSE IF Len(result) = 0 THEN GetRespond([g EXCEPT !.entries = result], 200, <<>>)
  ELSE Gather([g EXCEPT !.entries = result, !.stage = "enriching",
                        !.detailed = FanOut(result), !.lookups = LookupsOf(result)])

\* Promise.all keeps each result at the index of its promise.
PlaceInCompletionOrder(detailed, i, v) ==
  LET k == CHOOSE j \in 1..Len(detailed) :
             /\ detailed[j] = Pending
             /\ \A h \in 1..(j - 1) : detailed[h] # Pending
  IN [detailed EXCEPT ![k] = v]
Place(detailed, i, v) == [detailed EXCEPT ![i] = v]

\* route.ts:66-91, 100-105: a lookup settles. A rejection rejects Promise.all at
\* once and the catch answers 500; a fulfilment stores the enriched message.
LookupFailureDropped(g, i, ok) ==
  IF ~ok
  THEN Gather([g EXCEPT !.failed = TRUE, !.lookups = @ \ {i},
                        !.detailed = Place(g.detailed, i, Null)])
  ELSE Gather([g EXCEPT !.lookups = @ \ {i}, !.settled = Append(@, i),
                        !.detailed = Place(g.detailed, i, g.entries[i])])
LookupDone(g, i, ok) ==
  IF ~ok THEN GetRespond([g EXCEPT !.failed = TRUE], 500, <<>>)
  ELSE Gather([g EXCEPT !.lookups = @ \ {i}, !.settled = Append(@, i),
                        !.detailed = Place(g.detailed, i, g.entries[i])])

GetStart(g) ==
  /\ BagIn(g, gets) /\ g.stage = "issued"
  /\ gets' = Replace(gets, g, ListStart(g, accessToken))
  /\ UNCHANGED <<serverVars, posts, pageVars>>

GetListResult(g) ==
  /\ BagIn(g, gets) /\ g.stage = "listing"
  /\ \E ok \in BOOLEAN : gets' = Replace(gets, g, ListDone(g, ok, unread))
  /\ UNCHANGED <<serverVars, posts, pageVars>>

GetLookupResult(g) ==
  /\ BagIn(g, gets) /\ g.stage = "enriching"
  /\ \E i \in g.lookups, ok \in BOOLEAN : gets' = Replace(gets, g, LookupDone(g, i, ok))
  /\ UNCHANGED <<serverVars, posts, pageVars>>

\* ============================================================ a direct HTTP caller
ListInputs == {s \in SeqsUpTo(Msgs \cup {Null}, MaxList) : NoDupIds(s)}
DirectPayloads ==
  {Payload(a, b, c, d, e) : a \in Msgs \cup {Empty, Null},
                            b \in FieldValues, c \in FieldValues,
                            d \in FieldValues, e \in BodyValues}

Idle == posts = EmptyBag /\ gets = EmptyBag

DirectPost ==
  /\ Idle
  /\ \E p \in DirectPayloads : posts' = SetToBag({NewPost("direct", 0, Null, p)})
  /\ UNCHANGED <<serverVars, gets, pageVars>>

DirectGet ==
  /\ Idle
  /\ gets' = SetToBag({NewGet("direct")})
  /\ UNCHANGED <<serverVars, posts, pageVars>>

DirectReceive ==
  /\ \/ \E r \in BagToSet(posts) : r.origin = "direct" /\ r.stage = "done" /\ posts' = EmptyBag /\ gets' = gets
     \/ \E g \in BagToSet(gets) : g.origin = "direct" /\ g.stage = "done" /\ gets' = EmptyBag /\ posts' = posts
  /\ UNCHANGED <<serverVars, pageVars>>

\* The session gains or loses its access token (sign-in, expiry).
TokenChange ==
  /\ accessToken' = ~accessToken
  /\ UNCHANGED <<unread, posts, gets, pageVars>>

\* ========================================================================= page
\* Reply texts. The page only asks of a draft whether it is falsy and whether
\* it is empty once trimmed.
DefaultReply(m) == "acknowledge:" \o m
EditTexts == {Empty, " ", "ok"}
Trim(s) == IF s \in {Empty, " "} THEN Empty ELSE s

\* Messages as the list route enriches them: threadId, sender address and
\* subject are all present (page.tsx:175-182 builds the payload from them).
ClientPayload(m, body) == Payload(m, "x", "x", "x", body)

\* page.tsx:186-187, 194: payload.error as the route set it
SendError(status) ==
  IF status = 401 THEN "Unauthorized"
  ELSE IF status = 400 THEN "Missing required fields"
  ELSE "Failed to send reply"
\* page.tsx:105, 118 / 147, 157
LoadError(status) == IF status = 401 THEN "Unauthorized" ELSE "Failed to load messages"

\* page.tsx:417: the "Send reply" button of a rendered message is enabled
SendEnabled(m) ==
  /\ m \in Range(messages)
  /\ sendingId # m
  /\ ~Falsy(replyDrafts[m]) /\ Trim(replyDrafts[m]) # Empty

\* page.tsx:85-88, 343: the "Answer all with drafts" button is enabled
CanSend == \E m \in Msgs : replyDrafts[m] # Null /\ Trim(replyDrafts[m]) # Empty
AnswerAllEnabled == CanSend /\ sendingId = Null /\ messages # <<>>

\* page.tsx:191: setMessages((prev) => prev.filter((item) => item.id !== message.id))
KeepOnlyReplied(prev, m) == SelectSeq(prev, LAMBDA x : x = m)
AfterSuccess(prev, m) == Without(prev, m)

\* A run of handleAutoAnswerAll: msgs and drafts are the render's `messages`
\* and `replyDrafts` the handler closed over, idx the loop position, issued the
\* sends it has made.
IdleRun ==
  [active |-> FALSE, msgs |-> <<>>, drafts |-> [m \in Msgs |-> Null], idx |-> 0, issued |-> <<>>]

\* page.tsx:218: if (!replyDrafts[message.id]?.trim()) continue;
AttemptableUntrimmed(drafts, m) == ~Falsy(drafts[m])
Attemptable(drafts, m) == ~Falsy(drafts[m]) /\ Trim(drafts[m]) # Empty

\* page.tsx:192-197, 219: handleSendReply catches its own failure, so the await
\* in the loop always resumes the loop after the message just sent.
RunHaltsOnFailure(run, status) == IF status = 200 THEN run.idx ELSE Len(run.msgs)
RunResume(run, status) == run.idx

\* page.tsx:217-218: the next loop position whose message is sent, 0 if none
NextAttempt(run, from) ==
  LET c == {j \in (from + 1)..Len(run.msgs) : Attemptable(run.drafts, run.msgs[j])}
  IN IF c = {} THEN 0 ELSE CHOOSE j \in c : \A h \in c : j <= h

\* page.tsx:110-113 and 151-154: Object.fromEntries over the returned messages
\* replaces the whole map, whatever it held.
SeedKeepsEdits(prev, msgs) ==
  [m \in Msgs |-> IF m \notin Range(msgs) THEN Null
                  ELSE IF prev[m] # Null THEN prev[m] ELSE DefaultReply(m)]

SeedDraftsMerged(prev, msgs) ==
  [m \in Msgs |-> IF m \in Range(msgs) THEN DefaultReply(m) ELSE prev[m]]

SeedDrafts(prev, msgs) ==
  [m \in Msgs |-> IF m \in Range(msgs) THEN DefaultReply(m) ELSE Null]

\* page.tsx:90-126: the effect of the authenticated page runs loadMessages.
LoadEffect ==
  /\ authed /\ ~mounted
  /\ mounted' = TRUE
  /\ loadingMessages' = TRUE
  /\ error' = Null
  /\ gets' = gets (+) SetToBag({NewGet("load")})
  /\ UNCHANGED <<serverVars, posts, messages, replyDrafts, sendingId, runs, actions, otherVars>>

\* page.tsx:139-144, button at 277-283
HandleRefresh ==
  /\ mounted /\ ~loadingMessages
  /\ actions < budget
  /\ loadingMessages' = TRUE
  /\ error' = Null
  /\ actions' = actions + 1
  /\ gets' = gets (+) SetToBag({NewGet("refresh")})
  /\ UNCHANGED <<serverVars, posts, messages, replyDrafts, sendingId, mounted, runs, otherVars>>

\* page.tsx:94 and 129: `cancelled` is a variable of one run of the effect, set
\* by its cleanup and read by its loadMessages only; handleRefresh has none.
Cancelled(g) == g.origin = "load" /\ g.abandoned

\* page.tsx:103-122 and 145-160: the list response arrives.
ListReceive(g) ==
  /\ BagIn(g, gets) /\ g.origin \in {"load", "refresh"} /\ g.stage = "done"
  /\ gets' = gets (-) SetToBag({g})
  /\ IF Cancelled(g)
     THEN UNCHANGED <<messages, replyDrafts, error, loadingMessages>>
     ELSE /\ IF g.status = 200
             THEN /\ messages' = g.messages
                  /\ replyDrafts' = SeedDrafts(replyDrafts, g.messages)
                  /\ error' = error
             ELSE /\ error' = LoadError(g.status)
                  /\ UNCHANGED <<messages, replyDrafts>>
          /\ loadingMessages' = FALSE
  /\ UNCHANGED <<serverVars, posts, sendingId, mounted, runs, actions, otherVars>>

\* page.tsx:398-409: the textarea of a rendered message
EditDraft(m) ==
  /\ mounted /\ m \in Range(messages)
  /\ actions < budget
  /\ \E t \in EditTexts : replyDrafts' = [replyDrafts EXCEPT ![m] = t]
  /\ actions' = actions + 1
  /\ UNCHANGED <<serverVars, posts, gets, messages, sendingId, loadingMessages, error, mounted, runs, otherVars>>

\* page.tsx:163-183 from the button at 415-421: up to the await of fetch
ClickSend(m) ==
  /\ mounted /\ SendEnabled(m)
  /\ actions < budget
  /\ actions' = actions + 1
  /\ sendingId' = m
  /\ error' = Null
  /\ posts' = posts (+) SetToBag({NewPost("click", 0, m, ClientPayload(m, replyDrafts[m]))})
  /\ UNCHANGED <<serverVars, gets, messages, replyDrafts, loadingMessages, mounted, runs, otherVars>>

\* page.tsx:216-219 from the button at 341-347: the loop up to its first await.
\* With nothing to send the loop ends at once and nothing changes.
ClickAnswerAll(k) ==
  /\ mounted /\ AnswerAllEnabled
  /\ ~runs[k].active /\ \A h \in 1..(k - 1) : runs[h].active
  /\ actions < budget
  /\ actions' = actions + 1
  /\ LET run == [IdleRun EXCEPT !.msgs = messages, !.drafts = replyDrafts]
         j == NextAttempt(run, 0)
     IN /\ j # 0
        /\ runs' = [runs EXCEPT ![k] = [run EXCEPT !.active = TRUE, !.idx = j,
                                                  !.issued = <<run.msgs[j]>>]]
        /\ sendingId' = run.msgs[j]
        /\ error' = Null
        /\ posts' = posts (+) SetToBag({NewPost("run", k, run.msgs[j],
                                         ClientPayload(run.msgs[j], run.drafts[run.msgs[j]]))})
  /\ UNCHANGED <<serverVars, gets, messages, replyDrafts, loadingMessages, mounted, otherVars>>

\* page.tsx:185-197: the reply response arrives; for a send made by a run the
\* loop of page.tsx:217-220 then goes on to its next send (or ends) in the same
\* task, before anything else can run.
PostReceive(r) ==
  /\ BagIn(r, posts) /\ r.origin \in {"click", "run"} /\ r.stage = "done"
  /\ messages' = IF r.status = 200 THEN AfterSuccess(messages, r.msg) ELSE messages
  /\ LET rest == posts (-) SetToBag({r})
         failure == IF r.status = 200 THEN error ELSE SendError(r.status)
         j == IF r.origin = "run" THEN NextAttempt(runs[r.run], RunResume(runs[r.run], r.status)) ELSE 0
     IN IF r.origin = "run" /\ j # 0
        THEN LET run == runs[r.run] IN
             /\ runs' = [runs EXCEPT ![r.run] = [run EXCEPT !.idx = j, !.issued = Append(@, run.msgs[j])]]
             /\ sendingId' = run.msgs[j]
             /\ error' = Null
             /\ posts' = rest (+) SetToBag({NewPost("run", r.run, run.msgs[j],
                                             ClientPayload(run.msgs[j], run.drafts[run.msgs[j]]))})
        ELSE /\ runs' = IF r.origin = "run" THEN [runs EXCEPT ![r.run] = IdleRun] ELSE runs
             /\ sendingId' = Null
             /\ error' = failure
             /\ posts' = rest
  /\ UNCHANGED <<serverVars, gets, replyDrafts, loadingMessages, mounted, actions, otherVars>>

\* page.tsx:82 and 90-97, 129-131: the session stops being authenticated while
\* the page stays up. The effect's cleanup sets `cancelled` of the run that is
\* ending and the effect runs again, emptying the collection. Every list
\* request in flight is abandoned by this; only the effect's own one sees it.
SessionEnds ==
  /\ authed /\ mounted
  /\ actions < budget
  /\ actions' = actions + 1
  /\ authed' = FALSE
  /\ mounted' = FALSE
  /\ messages' = <<>>
  /\ gets' = BagOfAll(LAMBDA g : [g EXCEPT !.abandoned = TRUE], gets)
  /\ UNCHANGED <<serverVars, posts, replyDrafts, sendingId, loadingMessages, error, runs,
                 budget, calc>>

\* page.tsx:82: useSession reports an authenticated session again.
SessionResumes ==
  /\ ~authed
  /\ actions < budget
  /\ actions' = actions + 1
  /\ authed' = TRUE
  /\ UNCHANGED <<serverVars, posts, gets, messages, replyDrafts, sendingId, loadingMessages,
                 error, mounted, runs, budget, calc>>

\* page.tsx:201-204, 210-213: setReplyDrafts(prev => ({...prev, [message.id]: text}))
OnlyDraft(prev, m, text) == [x \in Msgs |-> IF x = m THEN text ELSE Null]
WithDraft(prev, m, text) == [prev EXCEPT ![m] = text]

\* page.tsx:26-48: the ids of QUICK_REPLIES; the text of template t for
\* message m, of which the page only asks whether it is blank.
TemplateIds == {"acknowledge", "schedule", "follow-up"}
TemplateText(t, m) == t \o ":" \o m
SmartReplyText(m) == "smart:" \o m

\* page.tsx:200-205 from the button at 374
HandleSmartDraft(m) ==
  /\ mounted /\ m \in Range(messages)
  /\ actions < budget
  /\ actions' = actions + 1
  /\ replyDrafts' = WithDraft(replyDrafts, m, SmartReplyText(m))
  /\ UNCHANGED <<serverVars, posts, gets, messages, sendingId, loadingMessages, error,
                 mounted, runs, otherVars>>

\* page.tsx:207-214 from the buttons at 382, one per entry of QUICK_REPLIES
HandleTemplate(m, templateId) ==
  /\ mounted /\ m \in Range(messages)
  /\ templateId \in TemplateIds
  /\ actions < budget
  /\ actions' = actions + 1
  /\ replyDrafts' = WithDraft(replyDrafts, m, TemplateText(templateId, m))
  /\ UNCHANGED <<serverVars, posts, gets, messages, sendingId, loadingMessages, error,
                 mounted, runs, otherVars>>

NoCalc == [fn |-> "none", arg |-> Null, out |-> <<>>]

PageInit ==
  /\ authed = TRUE
  /\ calc = NoCalc
  /\ messages = <<>>
  /\ replyDrafts = [m \in Msgs |-> Null]
  /\ sendingId = Null
  /\ loadingMessages = FALSE
  /\ error = Null
  /\ mounted = FALSE
  /\ runs = [k \in 1..MaxActions |-> IdleRun]
  /\ actions = 0

ServerInit ==
  /\ accessToken \in BOOLEAN
  /\ unread \in ListInputs
  /\ posts = EmptyBag
  /\ gets = EmptyBag
  /\ budget = MaxActions
  /\ PageInit

ServerNext ==
  \/ DirectPost
  \/ DirectGet
  \/ DirectReceive
  \/ TokenChange
  \/ \E r \in BagToSet(posts) : PostStart(r)
  \/ \E r \in BagToSet(posts) : PostSendResult(r)
  \/ \E r \in BagToSet(posts) : PostModifyResult(r)
  \/ \E g \in BagToSet(gets) : GetStart(g)
  \/ \E g \in BagToSet(gets) : GetListResult(g)
  \/ \E g \in BagToSet(gets) : GetLookupResult(g)

ServerSpec == ServerInit /\ [][ServerNext]_vars

\* The page of a signed-in user over a mailbox holding every message unread.
Init ==
  /\ accessToken = TRUE
  /\ unread = [i \in 1..MaxMsgs |-> "m" \o ToString(i)]
  /\ posts = EmptyBag
  /\ gets = EmptyBag
  /\ budget = MaxActions
  /\ PageInit

Next ==
  \/ LoadEffect
  \/ HandleRefresh
  \/ \E g \in BagToSet(gets) : ListReceive(g)
  \/ \E m \in Msgs : EditDraft(m)
  \/ \E m \in Msgs : ClickSend(m)
  \/ \E k \in 1..MaxActions : ClickAnswerAll(k)
  \/ \E r \in BagToSet(posts) : PostReceive(r)
  \/ \E r \in BagToSet(posts) : PostStart(r)
  \/ \E r \in BagToSet(posts) : PostSendResult(r)
  \/ \E r \in BagToSet(posts) : PostModifyResult(r)
  \/ \E g \in BagToSet(gets) : GetStart(g)
  \/ \E g \in BagToSet(gets) : GetListResult(g)
  \/ \E g \in BagToSet(gets) : GetLookupResult(g)

Spec == Init /\ [][Next]_vars

\* The request a run awaits is served and answered: the transport runs every
\* outstanding request to completion or failure, and the event loop then runs
\* the continuation.
RunProgress(k) ==
  \E r \in BagToSet(posts) :
    /\ r.origin = "run" /\ r.run = k
    /\ PostStart(r) \/ PostSendResult(r) \/ PostModifyResult(r) \/ PostReceive(r)

FairSpec == Spec /\ \A k \in 1..MaxActions : WF_vars(RunProgress(k))

\* The page whose session may end and come back while requests are in flight.
SessionNext ==
  \/ Next
  \/ SessionEnds
  \/ SessionResumes

SessionSpec == Init /\ [][SessionNext]_vars

\* The page followed for one user action more than Spec allows.
LongInit ==
  /\ accessToken = TRUE
  /\ unread = [i \in 1..MaxMsgs |-> "m" \o ToString(i)]
  /\ posts = EmptyBag
  /\ gets = EmptyBag
  /\ budget = MaxActions + 1
  /\ PageInit

LongSpec == LongInit /\ [][Next]_vars

\* The page with every way of changing a draft: edits, templates, smart draft.
DraftNext ==
  \/ Next
  \/ \E m \in Msgs : HandleSmartDraft(m)
  \/ \E m \in Msgs, t \in TemplateIds : HandleTemplate(m, t)

DraftSpec == Init /\ [][DraftNext]_vars

\* ============================================================ pure functions
\* Strings the functions take apart are sequences of one-character strings.
MaxSubjectLen == 4   \* characters of a subject given to the normalization
MaxSnippetLen == 3   \* characters of a snippet given to smartReply
MaxHeaderLen == 5    \* characters of a From header given to parseEmailAddress

NoText == <<Null>>   \* null / undefined where a character sequence may stand
IsSpace(c) == c \in {" ", "\t", "\n"}
StartsWith(s, prefix) ==
  Len(s) >= Len(prefix) /\ SubSeq(s, 1, Len(prefix)) = prefix

\* String.prototype.trim
RECURSIVE TrimLeft(_)
TrimLeft(s) == IF s # <<>> /\ IsSpace(Head(s)) THEN TrimLeft(Tail(s)) ELSE s
RECURSIVE TrimRight(_)
TrimRight(s) ==
  IF s # <<>> /\ IsSpace(s[Len(s)]) THEN TrimRight(SubSeq(s, 1, Len(s) - 1)) ELSE s
TrimSeq(s) == TrimRight(TrimLeft(s))

\* The characters of a sequence as one string.
RECURSIVE Str(_)
Str(s) == IF s = <<>> THEN Empty ELSE Head(s) \o Str(Tail(s))

\* part_001:69: payload.subject.startsWith("Re:") ? payload.subject : `Re: ${payload.subject}`
SubjectChars == {"R", "e", "E", ":", " ", "x"}
Subjects == SeqsUpTo(SubjectChars, MaxSubjectLen) \ {<<>>}
NormalizeSubjectAlways(s) == <<"R", "e", ":", " ">> \o s
NormalizeSubject(s) ==
  IF StartsWith(s, <<"R", "e", ":">>) THEN s ELSE <<"R", "e", ":", " ">> \o s

\* page.tsx:8-19: the fields of a GmailMessage the reply texts read; the
\* snippet is taken apart, the others are only inserted.
SnippetChars == {" ", "\n", "a"}
ReplyMessages ==
  [fromName : {Null, Empty, "Alex"}, fromAddress : {Null, Empty, "a@b.c"},
   subject : {"Hi", "(no subject)"}, snippet : SeqsUpTo(SnippetChars, MaxSnippetLen)]

\* page.tsx:26-33: QUICK_REPLIES[0].body
Acknowledge(recipient) ==
  "Hi " \o (IF recipient.fromName = Null THEN "there" ELSE recipient.fromName)
    \o ",\n\nThanks for reaching out about \"" \o recipient.subject
    \o "\". I received your message and will circle back with a full response soon.\n\nBest,\n"

\* page.tsx:50-52
defaultReply(message) == Acknowledge(message)

\* page.tsx:59: message.snippet.replace(/\s+/g, ' ').trim()
RECURSIVE Collapse(_)
Collapse(s) ==
  IF s = <<>> THEN <<>>
  ELSE IF IsSpace(Head(s)) THEN <<" ">> \o Collapse(TrimLeft(s))
  ELSE <<Head(s)>> \o Collapse(Tail(s))
CleanedSnippet(snippet) == TrimSeq(Collapse(snippet))

\* page.tsx:59-62: the text built from sender name, subject and snippet
SmartText(message) ==
  LET cleanedSnippet == Str(CleanedSnippet(message.snippet))
      greeting == IF Falsy(message.fromName) THEN "Hello,"
                  ELSE "Hi " \o message.fromName \o ","
  IN greeting \o "\n\nThanks for getting in touch regarding \"" \o message.subject \o "\". "
       \o (IF cleanedSnippet # Empty
           THEN "Here's what I understood from your note: " \o cleanedSnippet \o ". "
           ELSE Empty)
       \o "I'll review the details and follow up with the next steps shortly.\n\nBest regards,\n"

\* page.tsx:54-63
smartReplyAlwaysSmart(message) == SmartText(message)
smartReply(message) ==
  IF Falsy(message.fromAddress) THEN defaultReply(message) ELSE SmartText(message)

\* route.ts:14-30. From headers: display names, quotes, blanks and angle
\* brackets in any arrangement; a header value holds no line break.
HeaderChars == {"a", " ", "<", ">", "\""}
Headers == {NoText} \cup SeqsUpTo(HeaderChars, MaxHeaderLen)

\* `.` matches any character but a line terminator.
Dot(c) == c \notin {"\n", "\r"}
AllDot(s) == \A i \in 1..Len(s) : Dot(s[i])
LeadingSpaces(t) ==
  CHOOSE j \in 0..Len(t) :
    /\ \A i \in 1..j : IsSpace(t[i])
    /\ j < Len(t) => ~IsSpace(t[j + 1])

\* t matches \s*<(.+?)>$ : blanks, "<", at least one character, and ">" as the
\* last character of the input; the lazy group grows until that ">".
AngleTail(t) ==
  LET j == LeadingSpaces(t)
  IN /\ Len(t) >= j + 3
     /\ t[j + 1] = "<" /\ t[Len(t)] = ">"
     /\ AllDot(SubSeq(t, j + 2, Len(t) - 1))
Group2(t) == SubSeq(t, LeadingSpaces(t) + 2, Len(t) - 1)

\* /^(.*?)(?:\s*<(.+?)>)?$/ : the lazy first group takes the fewest characters
\* after which the rest is the bracketed tail or nothing. <<>> = no match.
HeaderMatch(h) ==
  LET K == {k \in 0..Len(h) :
              /\ AllDot(SubSeq(h, 1, k))
              /\ k = Len(h) \/ AngleTail(SubSeq(h, k + 1, Len(h)))}
  IN IF K = {} THEN <<>>
     ELSE LET k == CHOOSE x \in K : \A y \in K : x <= y
          IN <<SubSeq(h, 1, k),
               IF k = Len(h) THEN NoText ELSE Group2(SubSeq(h, k + 1, Len(h)))>>

RemoveQuotes(s) == SelectSeq(s, LAMBDA c : c # "\"")

\* route.ts:24: match[1].replace(/"/g, "").trim()
CleanNameKeepsQuotes(text) == TrimSeq(text)
CleanName(text) == TrimSeq(RemoveQuotes(text))

\* route.ts:28: address?.trim() ?? null
CleanAddress(text) == TrimSeq(text)

parseEmailAddress(headerValue) ==
  IF headerValue = NoText \/ headerValue = <<>>
  THEN [name |-> NoText, address |-> NoText]
  ELSE LET match == HeaderMatch(headerValue)
       IN IF match = <<>> THEN [name |-> NoText, address |-> headerValue]
          ELSE LET name == IF match[2] # NoText THEN CleanName(match[1]) ELSE NoText
                   address == IF match[2] # NoText THEN match[2] ELSE match[1]
               IN [name |-> IF name # NoText /\ Len(name) > 0 THEN name ELSE NoText,
                   address |-> CleanAddress(address)]

\* One call of a pure function: calc holds the argument and the results so far.
Call(fn, arg) == [fn |-> fn, arg |-> arg, out |-> <<>>]
Returned(fn) == calc.fn = fn /\ calc.out # <<>>
CalcOnly ==
  UNCHANGED <<serverVars, posts, gets, messages, replyDrafts, sendingId, loadingMessages,
              error, mounted, runs, actions, budget, authed>>

\* part_001:69: the subject is normalized, and what came out is normalized again
\* (a reply to a reply passes through the route a second time).
ApplyNormalizeSubject ==
  /\ calc.fn = "normalizeSubject" /\ Len(calc.out) < 2
  /\ LET s == IF calc.out = <<>> THEN calc.arg ELSE calc.out[Len(calc.out)]
     IN calc' = [calc EXCEPT !.out = Append(@, NormalizeSubject(s))]
  /\ CalcOnly

\* page.tsx:200-205: handleSmartDraft calls smartReply(message)
ApplySmartReply ==
  /\ calc.fn = "smartReply" /\ calc.out = <<>>
  /\ calc' = [calc EXCEPT !.out = <<smartReply(calc.arg)>>]
  /\ CalcOnly

\* route.ts:78: parseEmailAddress(fromHeader)
ApplyParseEmailAddress ==
  /\ calc.fn = "parseEmailAddress" /\ calc.out = <<>>
  /\ calc' = [calc EXCEPT !.out = <<parseEmailAddress(calc.arg)>>]
  /\ CalcOnly

PureInit ==
  /\ accessToken = TRUE
  /\ unread = <<>>
  /\ posts = EmptyBag
  /\ gets = EmptyBag
  /\ budget = MaxActions
  /\ authed = TRUE
  /\ messages = <<>>
  /\ replyDrafts = [m \in Msgs |-> Null]
  /\ sendingId = Null
  /\ loadingMessages = FALSE
  /\ error = Null
  /\ mounted = FALSE
  /\ runs = [k \in 1..MaxActions |-> IdleRun]
  /\ actions = 0
  /\ \/ \E s \in Subjects : calc = Call("normalizeSubject", s)
     \/ \E m \in ReplyMessages : calc = Call("smartReply", m)
     \/ \E h \in Headers : calc = Call("parseEmailAddress", h)

PureNext ==
  \/ ApplyNormalizeSubject
  \/ ApplySmartReply
  \/ ApplyParseEmailAddress

PureSpec == PureInit /\ [][PureNext]_vars

\* ===================================================================== claims
PostSet == BagToSet(posts)
GetSet == BagToSet(gets)

\* C4: in the reply route the label mutation is issued only after the provider's
\* send call of that request succeeded; when the send fails no mutation is
\* issued and the request ends in a failure response.
C4_ModifyOnlyAfterSend ==
  \A r \in PostSet :
    /\ r.modifyState # "none" => r.sendState = "ok"
    /\ r.sendState = "failed" =>
         r.modifyState = "none" /\ r.stage = "done" /\ r.status = 500
C4_Witness ==
  \E r \in PostSet : r.sendState = "failed" /\ r.status = 500 /\ r.token = "present"

\* C5: an authenticated send-reply request lacking any of messageId, threadId,
\* to, subject, body is answered 400, and neither send nor modify is issued.
C5_MissingFieldIs400 ==
  \A r \in PostSet :
    (r.token = "present" /\ MissingField(r.payload)) =>
      /\ r.stage = "done" /\ r.status = 400
      /\ r.sendState = "none" /\ r.modifyState = "none"
C5_Witness ==
  \E r \in PostSet :
    /\ r.token = "present" /\ r.status = 400
    /\ r.payload.body = Empty /\ r.payload.threadId = Null
    /\ ~Falsy(r.payload.messageId) /\ ~Falsy(r.payload.to) /\ ~Falsy(r.payload.subject)

\* C6: a list or send request handled while the session has no access token is
\* answered 401 (never 500, never a success) and reaches no provider call.
C6_NoTokenIs401 ==
  /\ \A r \in PostSet :
       r.token = "absent" =>
         /\ r.stage = "done" /\ r.status = 401
         /\ r.sendState = "none" /\ r.modifyState = "none"
  /\ \A g \in GetSet :
       g.token = "absent" =>
         /\ g.stage = "done" /\ g.status = 401
         /\ ~g.listed /\ g.settled = <<>> /\ g.messages = <<>>
C6_Witness ==
  \E r \in PostSet : r.token = "absent" /\ r.status = 401 /\ ~MissingField(r.payload)

\* C7: whatever order the enrichment lookups complete in, a successful list
\* result holds the enriched messages in the order of the ids the unread query
\* returned, with exactly the entries lacking an id left out.
C7_ListKeepsQueryOrder ==
  \A g \in GetSet :
    (g.stage = "done" /\ g.status = 200) =>
      g.messages = SelectSeq(g.entries, LAMBDA x : x # Null)
C7_Witness ==
  \E g \in GetSet :
    /\ g.stage = "done" /\ g.status = 200
    /\ Len(g.entries) = 3 /\ g.entries[2] = Null
    /\ g.settled = <<3, 1>>
    /\ g.messages = <<g.entries[1], g.entries[3]>>

\* C8: if the unread query or any lookup fails the list route answers 500 with
\* no messages, however many lookups had succeeded; messages are returned only
\* when every lookup succeeded.
C8_AnyFailureIs500 ==
  \A g \in GetSet :
    /\ g.failed => g.stage = "done" /\ g.status = 500 /\ g.messages = <<>>
    /\ (g.stage = "done" /\ g.status = 200) =>
         ~g.failed /\ Range(g.settled) = LookupsOf(g.entries)
C8_Witness ==
  \E g \in GetSet :
    g.failed /\ g.status = 500 /\ Len(g.settled) = 1 /\ Cardinality(LookupsOf(g.entries)) = 2

\* -------------------------------------------------------------- page claims
\* The response of request r is handled in this step (only PostReceive takes an
\* answered request out of the bag).
Completes(r) ==
  /\ BagIn(r, posts) /\ r.stage = "done" /\ r.origin # "direct"
  /\ CopiesIn(r, posts') < CopiesIn(r, posts)

OutstandingSends == {r \in PostSet : r.origin # "direct"}
RunPosts(k) == {r \in PostSet : r.origin = "run" /\ r.run = k}
\* The messages of a run's collection whose draft holds more than whitespace.
Expected(run) == SelectSeq(run.msgs, LAMBDA m : run.drafts[m] \notin {Null, Empty, " "})
IsPrefix(s, t) == Len(s) <= Len(t) /\ s = SubSeq(t, 1, Len(s))

\* C1: when a send-reply request for message m completes successfully, the
\* visible collection afterwards is the collection before with m removed:
\* the other messages stay, none is added, their order is kept.
C1_SuccessRemovesExactlyM ==
  [][\A r \in PostSet :
       (Completes(r) /\ r.status = 200) => messages' = Without(messages, r.msg)]_vars
C1_Witness ==
  /\ messages = <<"m2">> /\ unread = <<"m2">>
  /\ posts = EmptyBag /\ gets = EmptyBag
  /\ actions = 1 /\ sendingId = Null

\* C2: at most one send-reply request is outstanding at any time.
C2_OneSendOutstanding ==
  \A r \in OutstandingSends : CopiesIn(r, posts) = 1 /\ OutstandingSends = {r}

\* C3: whenever the provider accepted the reply for m, m is gone from the
\* visible collection once that send request completes, also when the label
\* mutation then failed.
C3_AcceptedReplyIsRemoved ==
  [][\A r \in PostSet :
       (Completes(r) /\ r.sendState = "ok") => r.msg \notin Range(messages')]_vars

\* C9: a run of "Answer all with drafts" sends the messages of the collection
\* it was started on, in collection order, leaving out those whose draft (as
\* rendered when the button was clicked) is empty after trimming, and has at
\* most one request outstanding: the one for the message it attempted last.
C9_RunIsOrderedAndSerial ==
  \A k \in 1..MaxActions :
    LET run == runs[k] IN
    /\ run.active =>
         /\ run.issued # <<>> /\ IsPrefix(run.issued, Expected(run))
         /\ \A r \in RunPosts(k) :
              /\ CopiesIn(r, posts) = 1 /\ RunPosts(k) = {r}
              /\ r.msg = run.issued[Len(run.issued)]
    /\ ~run.active => RunPosts(k) = {}
C9_Witness ==
  \E k \in 1..MaxActions :
    /\ runs[k].active /\ runs[k].msgs = <<"m1", "m2">>
    /\ runs[k].drafts["m1"] = " "
    /\ runs[k].issued = <<"m2">>
    /\ \E r \in RunPosts(k) : r.msg = "m2" /\ r.stage = "issued"

\* C10: a failed send does not stop a run: the run ends only when every message
\* of its collection with a non-empty draft has been attempted, and it does end.
C10_RunOutlivesFailures ==
  /\ [][\A k \in 1..MaxActions :
          (runs[k].active /\ ~runs'[k].active) => runs[k].issued = Expected(runs[k])]_vars
  /\ \A k \in 1..MaxActions : runs[k].active ~> ~runs[k].active
C10_Witness ==
  \E k \in 1..MaxActions :
    /\ runs[k].active /\ runs[k].issued = <<"m1", "m2">>
    /\ messages = <<"m1", "m2">> /\ error = Null /\ actions = 1

\* C11: the response of a list request (initial load or manual refresh) that
\* was still in flight when the session stopped being authenticated changes
\* none of the collection, the drafts, the error and the loading flag.
C11_AbandonedFetchIsInert ==
  [][\A g \in GetSet :
       (g.abandoned /\ g.stage = "done" /\ gets' = gets (-) SetToBag({g}))
         => UNCHANGED <<messages, replyDrafts, error, loadingMessages>>]_vars

\* C12: the provider's send call is never made with a body that is empty once
\* trimmed, whoever issued the request (a page handler or a direct caller of
\* the reply route).
C12_NoBlankBodySent ==
  \A r \in PostSet : r.sendState # "none" => Trim(r.payload.body) # Empty

\* C13: when a message that was removed after its reply was sent (its draft
\* entry is left behind by the removal) appears again in a fetched list, the
\* draft shown for it is the freshly seeded default, not the text left behind.
C13_ReappearingGetsDefault ==
  [][\A m \in Msgs :
       (m \notin Range(messages) /\ replyDrafts[m] # Null /\ m \in Range(messages'))
         => replyDrafts'[m] = DefaultReply(m)]_vars

\* m1's reply went through (the provider no longer lists it as unread and no
\* request is left), yet a list fetched before that shows it again.
C13_Witness ==
  /\ posts = EmptyBag /\ gets = EmptyBag
  /\ "m1" \notin Range(unread)
  /\ "m1" \in Range(messages)
  /\ replyDrafts["m1"] = DefaultReply("m1")

\* C14: when the unread query succeeds with no ids the list route answers at
\* once with success and an empty collection, and no enrichment lookup is
\* issued.
C14_EmptyQueryShortCircuits ==
  \A g \in GetSet :
    (g.token = "present" /\ g.stage \in {"enriching", "done"} /\ ~g.failed /\ g.entries = <<>>)
      => /\ g.stage = "done" /\ g.status = 200 /\ g.messages = <<>>
         /\ g.detailed = <<>> /\ g.lookups = {} /\ g.settled = <<>>
C14_Witness ==
  \E g \in GetSet :
    /\ unread = <<>> /\ g.origin = "direct"
    /\ g.token = "present" /\ ~g.failed
    /\ g.stage = "done" /\ g.status = 200 /\ g.messages = <<>>

\* C15: subject normalization is idempotent: normalizing a normalized subject
\* gives the same string as normalizing once, so "Re: " is never prefixed twice.
C15_NormalizeIdempotent ==
  (calc.fn = "normalizeSubject" /\ Len(calc.out) = 2) => calc.out[2] = calc.out[1]

\* A subject that starts with "Re:" without the blank, and one that gets the
\* prefix, each normalized twice.
C15_Witness ==
  /\ calc.fn = "normalizeSubject" /\ Len(calc.out) = 2
  /\ calc.arg \in {<<"R", "e", ":", "x">>, <<"x">>}
  /\ calc.out[2] \in {<<"R", "e", ":", "x">>, <<"R", "e", ":", " ", "x">>}

\* C16: for every message whose fromAddress is null, smartReply returns exactly
\* the text of the first (acknowledge) template for that message, whatever its
\* snippet, fromName and subject are.
C16_NullAddressGetsAcknowledge ==
  (Returned("smartReply") /\ calc.arg.fromAddress = Null)
    => calc.out[1] = Acknowledge(calc.arg)

C16_Witness ==
  /\ Returned("smartReply") /\ calc.arg.fromAddress = Null
  /\ calc.arg.fromName = "Alex" /\ calc.arg.snippet = <<"a", " ", "a">>
  /\ calc.out[1] = "Hi Alex,\n\nThanks for reaching out about \"Hi\". I received your message and will circle back with a full response soon.\n\nBest,\n"

\* The bracketed address of a From header: from its first "<" to the ">" that
\* ends the header, with at least one character between them.
Opens(h) == {p \in 1..Len(h) : h[p] = "<"}
FirstOpen(h) == CHOOSE p \in Opens(h) : \A q \in Opens(h) : p <= q
HasAngleAddress(h) ==
  /\ Opens(h) # {} /\ h[Len(h)] = ">"
  /\ FirstOpen(h) <= Len(h) - 2
AngleContent(h) == SubSeq(h, FirstOpen(h) + 1, Len(h) - 1)
Preceding(h) == SubSeq(h, 1, FirstOpen(h) - 1)
NameOf(text) ==
  LET n == TrimSeq(RemoveQuotes(text)) IN IF n = <<>> THEN NoText ELSE n
Parsed == Returned("parseEmailAddress") /\ calc.arg # NoText /\ calc.arg # <<>>

\* C17 as stated: for a non-empty From header without a bracketed address the
\* whole header, trimmed, is the address and the name is null; with one, the
\* address is exactly the text between the brackets and the name is the text
\* before it with the quote characters removed and trimmed, or null when that
\* leaves nothing.
C17_AddressIsBracketContent ==
  Parsed =>
    IF HasAngleAddress(calc.arg)
    THEN /\ calc.out[1].address = AngleContent(calc.arg)
         /\ calc.out[1].name = NameOf(Preceding(calc.arg))
    ELSE /\ calc.out[1].address = TrimSeq(calc.arg)
         /\ calc.out[1].name = NoText

\* C17, amended: as above, but the address is the text between the brackets
\* with the whitespace around it trimmed.
C17_ParseSplitsSender ==
  Parsed =>
    IF HasAngleAddress(calc.arg)
    THEN /\ calc.out[1].address = TrimSeq(AngleContent(calc.arg))
         /\ calc.out[1].name = NameOf(Preceding(calc.arg))
    ELSE /\ calc.out[1].address = TrimSeq(calc.arg)
         /\ calc.out[1].name = NoText

\* A display name before a bracketed address that has a blank inside the
\* brackets.
C17_Witness ==
  /\ Parsed
  /\ calc.arg = <<"a", "<", " ", "a", ">">>
  /\ calc.out[1] = [name |-> <<"a">>, address |-> <<"a">>]

\* C18: when a send-reply request for m fails, the step that handles the
\* failure leaves the collection and every draft as they were, records an error
\* message and resets the sending indicator to null.
C18_FailedSendIsRetryable ==
  [][\A r \in PostSet :
       (Completes(r) /\ r.status # 200)
         => /\ messages' = messages /\ replyDrafts' = replyDrafts
            /\ error' # Null /\ sendingId' = Null]_vars

\* C19: the step that applies a successful load or refresh leaves the draft
\* map with exactly one entry per returned message, the first (acknowledge)
\* template for it, whatever the drafts were before; the step that handles a
\* failed one leaves the collection and the drafts as they were.
C19_FetchSeedsDrafts ==
  [][\A g \in GetSet :
       (g.stage = "done" /\ g.origin # "direct" /\ ~Cancelled(g)
          /\ gets' = gets (-) SetToBag({g}))
         => IF g.status = 200
            THEN /\ messages' = g.messages
                 /\ \A m \in Msgs :
                      replyDrafts'[m] = IF \E i \in 1..Len(g.messages) : g.messages[i] = m
                                        THEN "acknowledge:" \o m ELSE Null
            ELSE messages' = messages /\ replyDrafts' = replyDrafts]_vars

\* A refresh has failed on a page that shows both messages, one of them with
\* an edited draft.
C19_Witness ==
  /\ gets = EmptyBag /\ error = "Failed to load messages"
  /\ messages = <<"m1", "m2">>
  /\ replyDrafts = [m \in Msgs |-> IF m = "m1" THEN "ok" ELSE DefaultReply(m)]

\* C20: no message has two send-reply requests outstanding at the same time,
\* whether they were started by its "Send reply" button or by an answer-all run.
C20_OneSendPerMessage ==
  \A r, q \in OutstandingSends :
    r.msg = q.msg => (r = q /\ CopiesIn(r, posts) = 1)

\* C21: once the reply for m has succeeded (the provider no longer lists m as
\* unread) and its response has been handled, m stays out of the visible
\* collection; a list that shows m can only have been queried before that.
C21_RepliedStaysRemoved ==
  \A m \in Msgs :
    (m \notin Range(unread) /\ \A r \in OutstandingSends : r.msg # m)
      => m \notin Range(messages)

\* C22: loadingMessages is true only while a list fetch of the page is in
\* flight; once every started fetch has completed, the flag is false.
C22_LoadingOnlyWhileFetching ==
  loadingMessages => \E g \in GetSet : g.origin \in {"load", "refresh"}

\* C23: every message in the visible collection has an entry in the draft map,
\* across any sequence of load, refresh, template selection, smart draft, edit
\* and send.
C23_VisibleHasDraft ==
  \A m \in Range(messages) : replyDrafts[m] # Null

\* Both messages are visible, one with a template's text and one with the
\* smart draft.
C23_Witness ==
  /\ messages = <<"m1", "m2">>
  /\ replyDrafts["m1"] = TemplateText("schedule", "m1")
  /\ replyDrafts["m2"] = SmartReplyText("m2")

====
